---- MODULE Spec2Model ----
(***************************************************************************)
(* Model of config/monitor-api.py, the Inferno AoIP monitoring API:        *)
(* the three log tail parsers, the status endpoints with their Prometheus  *)
(* gauges, the service prober and the hardware audio output controller.    *)
(* Text (log lines, config lines) is modelled as TLA+ strings and the      *)
(* regular expressions, int()/float()/str() conversions of the source are  *)
(* computed character by character.                                        *)
(***************************************************************************)
EXTENDS Integers, Sequences, FiniteSets, TLC

VARIABLES
    statimeLog,         \* LOG_DIR / "statime.log"
    infernoLog,         \* LOG_DIR / "inferno.log"
    srtLog,             \* LOG_DIR / "srt.log"
    installationConf,   \* CONFIG_FILE
    audioOutFile,       \* AUDIO_OUT_CONFIG
    systemd,            \* what `systemctl is-active` answers, per service
    ptp_clock_offset,   \* gauge inferno_ptp_clock_offset_ns
    ptp_synchronized,   \* gauge inferno_ptp_synchronized
    srt_connected,      \* gauge inferno_srt_connected
    srt_bitrate,        \* gauge inferno_srt_bitrate_kbps
    srt_rtt,            \* gauge inferno_srt_rtt_ms
    srt_packet_loss,    \* gauge inferno_srt_packet_loss_pct
    packet_loss_rate,   \* gauge inferno_packet_loss_rate
    service_up,         \* gauge inferno_service_up{service}
    resp,               \* the response of the request handled last
    ops,                \* file writes and systemctl control commands of that request
    toggles             \* the toggle requests the server holds, per connection

vars == <<statimeLog, infernoLog, srtLog, installationConf, audioOutFile, systemd,
          ptp_clock_offset, ptp_synchronized, srt_connected, srt_bitrate, srt_rtt,
          srt_packet_loss, packet_loss_rate, service_up, resp, ops, toggles>>

logVars == <<statimeLog, infernoLog, srtLog>>
ptpGauges == <<ptp_clock_offset, ptp_synchronized>>
srtGauges == <<srt_connected, srt_bitrate, srt_rtt, srt_packet_loss>>

(***************************************************************************)
(* Bounds of the model.                                                    *)
(***************************************************************************)
MaxLog == 2             \* lines a log file grows to
MaxPair == 2            \* largest stereo_pair a request carries
MaxStereoPair == 10     \* largest stereo_pair written and read back
MaxRequests == 2        \* toggle requests the server holds at a time

(***************************************************************************)
(* Text: characters, str.lower(), substring test, runs of a character      *)
(* class, int() and str() of Python.                                       *)
(***************************************************************************)
Char(s, i) == SubSeq(s, i, i)

UpperAlpha == "ABCDEFGHIJKLMNOPQRSTUVWXYZ"
LowerAlpha == "abcdefghijklmnopqrstuvwxyz"
DigitChars == "0123456789"

IsDigit(c) == \E d \in 1..10 : Char(DigitChars, d) = c
DigitVal(c) == (CHOOSE d \in 1..10 : Char(DigitChars, d) = c) - 1
IsSpace(c) == c \in {" ", "\t", "\n", "\r", "\f"}

LowerChar(c) ==
    IF \E i \in 1..26 : Char(UpperAlpha, i) = c
    THEN Char(LowerAlpha, CHOOSE i \in 1..26 : Char(UpperAlpha, i) = c)
    ELSE c

RECURSIVE lower(_)
lower(s) ==
    IF Len(s) = 0 THEN ""
    ELSE LowerChar(Char(s, 1)) \o lower(SubSeq(s, 2, Len(s)))

\* Python's `sub in s`
In(sub, s) ==
    \E i \in 1..(Len(s) - Len(sub) + 1) : SubSeq(s, i, i + Len(sub) - 1) = sub

StartsWith(s, pre) ==
    Len(s) >= Len(pre) /\ SubSeq(s, 1, Len(pre)) = pre

\* the first index at or after i whose character is outside the class
RunEnd(s, i, InClass(_)) ==
    CHOOSE j \in i..(Len(s) + 1) :
        /\ \A k \in i..(j - 1) : InClass(Char(s, k))
        /\ j = Len(s) + 1 \/ ~InClass(Char(s, j))

SetMin(S) == CHOOSE m \in S : \A n \in S : m <= n

RECURSIVE ParseDigits(_)
ParseDigits(s) ==
    IF Len(s) = 0 THEN 0
    ELSE 10 * ParseDigits(SubSeq(s, 1, Len(s) - 1)) + DigitVal(Char(s, Len(s)))

\* s from index a on, without the whitespace at its end
strip_from(s, a) ==
    SubSeq(s, a, IF a > Len(s) THEN a - 1
                 ELSE CHOOSE j \in a..Len(s) :
                         /\ ~IsSpace(Char(s, j))
                         /\ \A k \in (j + 1)..Len(s) : IsSpace(Char(s, k)))

\* str.strip(): leading and trailing whitespace removed
strip(s) == strip_from(s, RunEnd(s, 1, IsSpace))

\* int(text): [ok |-> FALSE] stands for the ValueError
ValueError == [ok |-> FALSE, val |-> 0]
\* the digits of an int literal, after its sign
int_digits(sign, body) ==
    IF Len(body) > 0 /\ \A k \in 1..Len(body) : IsDigit(Char(body, k))
    THEN [ok |-> TRUE,
          val |-> IF sign = "-" THEN 0 - ParseDigits(body) ELSE ParseDigits(body)]
    ELSE ValueError

int_stripped(t) ==
    IF Len(t) > 0 /\ Char(t, 1) \in {"-", "+"}
    THEN int_digits(Char(t, 1), SubSeq(t, 2, Len(t)))
    ELSE int_digits("+", t)

int(text) == int_stripped(strip(text))

RECURSIVE NatStr(_)
NatStr(n) ==
    IF n < 10 THEN Char(DigitChars, n + 1)
    ELSE NatStr(n \div 10) \o Char(DigitChars, (n % 10) + 1)

\* str(n) of an int
str(n) == IF n < 0 THEN "-" \o NatStr(0 - n) ELSE NatStr(n)

(***************************************************************************)
(* Files.  A file is absent, or holds a sequence of lines.                 *)
(***************************************************************************)
NoFile == [exists |-> FALSE, lines |-> <<>>]
File(ls) == [exists |-> TRUE, lines |-> ls]

TailSize == 100

\* f.readlines()[-100:]
readlines_tail(f) ==
    IF Len(f.lines) <= TailSize THEN f.lines
    ELSE SubSeq(f.lines, Len(f.lines) - TailSize + 1, Len(f.lines))

\* what the environment does to a log file: the writer appends a line, or the
\* file is rotated (emptied) or removed
LogNext(f, Lines) ==
    ({NoFile, File(<<>>)}
       \cup {File(Append(f.lines, l)) : l \in {x \in Lines : Len(f.lines) < MaxLog}})
    \ {f}

(***************************************************************************)
(* Regular expressions of the parsers.  A match is the text of group 1.    *)
(***************************************************************************)
NoMatch == [found |-> FALSE, group |-> ""]
Match(g) == [found |-> TRUE, group |-> g]

IsSep(c) == c = ":" \/ IsSpace(c)

\* re.search(key + r'[:\s]+(-?\d+)', s) when neg, key + r'[:\s]+(\d+)' otherwise
re_search_key_int(s, key, neg) ==
    LET SepEnd(i) == RunEnd(s, i + Len(key), IsSep)
        NumStart(i) == IF neg /\ SepEnd(i) <= Len(s) /\ Char(s, SepEnd(i)) = "-"
                       THEN SepEnd(i) + 1 ELSE SepEnd(i)
        NumEnd(i) == RunEnd(s, NumStart(i), IsDigit)
        starts == {i \in 1..(Len(s) - Len(key) + 1) :
                     /\ SubSeq(s, i, i + Len(key) - 1) = key
                     /\ SepEnd(i) > i + Len(key)
                     /\ NumEnd(i) > NumStart(i)}
    IN  IF starts = {} THEN NoMatch
        ELSE LET i == SetMin(starts) IN Match(SubSeq(s, SepEnd(i), NumEnd(i) - 1))

(***************************************************************************)
(* parse_statime_log                                                       *)
(***************************************************************************)
SyncThreshold == 100000

Abs(x) == IF x < 0 THEN 0 - x ELSE x

None == "None"

ptp_status_default ==
    [synchronized |-> FALSE, clock_offset_ns |-> 0, master_ip |-> None,
     state |-> "unknown"]

\* a variant that takes the threshold itself as synchronized
synchronized_of_inclusive(offset) == Abs(offset) <= SyncThreshold

synchronized_of(offset) == Abs(offset) < SyncThreshold

StatimeLines ==
    {"offset: 99999", "offset: 100000", "clock offset -100000 ns", "Offset: 7",
     "offset: 0", "state: master", "new state SLAVE offset: -99999", "port state: Listening"}

\* what the triggers and patterns of the loop body find in one line: the offset
\* match, and the state the state branch assigns ("" when it assigns none)
statime_matches_low(line, low) ==
    [offset |-> IF In("offset", low)
                THEN re_search_key_int(line, "offset", TRUE) ELSE NoMatch,
     state |-> IF In("state", low)
               THEN IF In("slave", low) \/ In("listening", low) THEN "slave"
                    ELSE IF In("master", low) THEN "master" ELSE ""
               ELSE ""]

statime_matches(line) == statime_matches_low(line, lower(line))

\* the matches depend on the line alone: those of the lines the log writer
\* produces are tabulated
StatimeTable == [l \in StatimeLines |-> statime_matches(l)]
statime_found(line) ==
    IF line \in StatimeLines THEN StatimeTable[line] ELSE statime_matches(line)

\* the state branch of the loop body
statime_state(st, found) ==
    IF found.state = "" THEN st ELSE [st EXCEPT !.state = found.state]

\* the offset branch of the loop body: the status returned
statime_offset(st, offset) ==
    [ptp_status |-> [st EXCEPT !.clock_offset_ns = offset,
                               !.synchronized = synchronized_of(offset)],
     gauge_set |-> TRUE]

\* for line in reversed(lines), from line i down; gauge_set tells that the
\* offset branch ran (it sets the two gauges and leaves the loop)
RECURSIVE statime_scan(_, _, _)

\* the loop body for line i, given what is found in it
statime_line(lines, i, st, found) ==
    IF found.offset.found
    THEN statime_offset(st, int(found.offset.group).val)
    ELSE statime_scan(lines, i - 1, statime_state(st, found))

statime_scan(lines, i, st) ==
    IF i = 0 THEN [ptp_status |-> st, gauge_set |-> FALSE]
    ELSE statime_line(lines, i, st, statime_found(lines[i]))

statime_tail(lines) == statime_scan(lines, Len(lines), ptp_status_default)

parse_statime_log(f) ==
    IF ~f.exists THEN [ptp_status |-> ptp_status_default, gauge_set |-> FALSE]
    ELSE statime_tail(readlines_tail(f))

\* the gauges after a call of parse_statime_log that returned r
PtpGaugesAfter(r) ==
    /\ ptp_clock_offset' =
          IF r.gauge_set THEN r.ptp_status.clock_offset_ns ELSE ptp_clock_offset
    /\ ptp_synchronized' =
          IF r.gauge_set THEN (IF r.ptp_status.synchronized THEN 1 ELSE 0)
          ELSE ptp_synchronized

(***************************************************************************)
(* Floats.  A float is kept as the fraction in lowest terms it stands for, *)
(* so that 0, 0.0 and 0/10 are one value, as they compare equal in Python.  *)
(***************************************************************************)
RECURSIVE GCD(_, _)
GCD(a, b) == IF b = 0 THEN a ELSE GCD(b, a % b)

Frac(n, d) == LET g == GCD(n, d) IN [num |-> n \div g, den |-> d \div g]
Zero == [num |-> 0, den |-> 1]

RECURSIVE Pow10(_)
Pow10(k) == IF k = 0 THEN 1 ELSE 10 * Pow10(k - 1)

\* float(text) of a text matched by \d+\.?\d*
float(text) ==
    LET e == RunEnd(text, 1, IsDigit)
        decimals == IF e <= Len(text) THEN SubSeq(text, e + 1, Len(text)) ELSE ""
    IN  Frac(ParseDigits(SubSeq(text, 1, e - 1) \o decimals), Pow10(Len(decimals)))

StartsWithAt(s, i, w) ==
    i + Len(w) - 1 <= Len(s) /\ SubSeq(s, i, i + Len(w) - 1) = w

\* the starts of the maximal runs of digits of s
DigitRunStarts(s) ==
    {i \in 1..Len(s) : IsDigit(Char(s, i)) /\ (i = 1 \/ ~IsDigit(Char(s, i - 1)))}

\* re.search(r'(\d+)\s*' + word, s)
re_search_int_before(s, word) ==
    LET NumEnd(i) == RunEnd(s, i, IsDigit)
        starts == {i \in DigitRunStarts(s) :
                     StartsWithAt(s, RunEnd(s, NumEnd(i), IsSpace), word)}
    IN  IF starts = {} THEN NoMatch
        ELSE LET i == SetMin(starts) IN Match(SubSeq(s, i, NumEnd(i) - 1))

\* the end of \d+\.?\d* matched greedily from i
DecimalEnd(s, i) ==
    LET e == RunEnd(s, i, IsDigit)
    IN  IF e <= Len(s) /\ Char(s, e) = "." THEN RunEnd(s, e + 1, IsDigit) ELSE e

\* re.search(r'(\d+\.?\d*)\s*kbits?/s', s)
re_search_kbits(s) ==
    LET After(i) == RunEnd(s, DecimalEnd(s, i), IsSpace)
        starts == {i \in DigitRunStarts(s) :
                     StartsWithAt(s, After(i), "kbits/s") \/ StartsWithAt(s, After(i), "kbit/s")}
    IN  IF starts = {} THEN NoMatch
        ELSE LET i == SetMin(starts) IN Match(SubSeq(s, i, DecimalEnd(s, i) - 1))

\* re.search(r'(\d+\.?\d*)%', s)
re_search_percent(s) ==
    LET starts == {i \in DigitRunStarts(s) : StartsWithAt(s, DecimalEnd(s, i), "%")}
    IN  IF starts = {} THEN NoMatch
        ELSE LET i == SetMin(starts) IN Match(SubSeq(s, i, DecimalEnd(s, i) - 1))

IsUriChar(c) == ~IsSpace(c) /\ c # "'" /\ c # "\""

\* re.search(r'(srt://[^\s\'"]+)', s)
re_search_srt_uri(s) ==
    LET UriEnd(i) == RunEnd(s, i + 6, IsUriChar)
        starts == {i \in 1..(Len(s) - 5) :
                     SubSeq(s, i, i + 5) = "srt://" /\ UriEnd(i) > i + 6}
    IN  IF starts = {} THEN NoMatch
        ELSE LET i == SetMin(starts) IN Match(SubSeq(s, i, UriEnd(i) - 1))

(***************************************************************************)
(* parse_inferno_log                                                       *)
(***************************************************************************)
audio_status_default ==
    [rx_channels |-> 0, tx_channels |-> 0, sample_rate |-> 0,
     packets_received |-> 0, packets_lost |-> 0]

InfernoLines ==
    {"2 channels", "8 channels @ 48000 Hz", "sample rate 44100hz",
     "packets received: 10 lost: 0", "packets received: 0 lost: 0",
     "packets received: 30 lost: 10", "Channels: 4", "packets lost: 5"}

\* what the triggers and patterns of the loop body find in one line
inferno_matches_low(line, low) ==
    [ch |-> IF In("channels", low)
            THEN re_search_int_before(line, "channel") ELSE NoMatch,
     hz |-> IF In("sample rate", low) \/ In("hz", low)
            THEN re_search_int_before(low, "hz") ELSE NoMatch,
     rc |-> IF In("packets", low)
            THEN re_search_key_int(low, "received", FALSE) ELSE NoMatch,
     ls |-> IF In("packets", low)
            THEN re_search_key_int(low, "lost", FALSE) ELSE NoMatch]

inferno_matches(line) == inferno_matches_low(line, lower(line))

InfernoTable == [l \in InfernoLines |-> inferno_matches(l)]
inferno_found(line) ==
    IF line \in InfernoLines THEN InfernoTable[line] ELSE inferno_matches(line)

\* the loop body: the record after one line
inferno_assign(st, found) ==
    [st EXCEPT
       !.rx_channels = IF found.ch.found THEN int(found.ch.group).val ELSE @,
       !.sample_rate = IF found.hz.found THEN int(found.hz.group).val ELSE @,
       !.packets_received = IF found.rc.found THEN int(found.rc.group).val ELSE @,
       !.packets_lost = IF found.ls.found THEN int(found.ls.group).val ELSE @]

inferno_line(st, line) == inferno_assign(st, inferno_found(line))

\* for line in reversed(lines), from line i down
RECURSIVE inferno_scan(_, _, _)
inferno_scan(lines, i, st) ==
    IF i = 0 THEN st ELSE inferno_scan(lines, i - 1, inferno_line(st, lines[i]))

inferno_tail(lines) == inferno_scan(lines, Len(lines), audio_status_default)

parse_inferno_log(f) ==
    IF ~f.exists THEN audio_status_default ELSE inferno_tail(readlines_tail(f))

(***************************************************************************)
(* parse_srt_log                                                           *)
(***************************************************************************)
srt_status_default ==
    [connected |-> FALSE, destination |-> None, bitrate_kbps |-> Zero,
     rtt_ms |-> Zero, packet_loss_pct |-> Zero]

SrtLines ==
    {"Opening srt://10.0.0.1:9000 for writing", "srt://10.0.0.2:9000 connection failed",
     "SRT://host Error", "bitrate= 128.5kbits/s", "bitrate= 256kbits/s",
     "packet loss 1.5%", "loss 0%"}

\* what the triggers and patterns of the loop body find in one line; clean tells
\* that the line holds neither 'error' nor 'failed'
srt_matches_low(line, low) ==
    [uri |-> IF In("srt://", low) THEN re_search_srt_uri(line) ELSE NoMatch,
     clean |-> ~In("error", low) /\ ~In("failed", low),
     br |-> IF In("bitrate", low) \/ In("kbits/s", low)
            THEN re_search_kbits(low) ELSE NoMatch,
     pl |-> IF In("loss", low) THEN re_search_percent(line) ELSE NoMatch]

srt_matches(line) == srt_matches_low(line, lower(line))

SrtTable == [l \in SrtLines |-> srt_matches(l)]
srt_found(line) ==
    IF line \in SrtLines THEN SrtTable[line] ELSE srt_matches(line)

\* a variant in which every line sets connected, with or without a destination
srt_assign_any_line(st, found) ==
    [st EXCEPT
       !.destination = IF found.uri.found THEN found.uri.group ELSE @,
       !.connected = found.clean,
       !.bitrate_kbps = IF found.br.found THEN float(found.br.group) ELSE @,
       !.packet_loss_pct = IF found.pl.found THEN float(found.pl.group) ELSE @]

\* the loop body: the record after one line
srt_assign(st, found) ==
    [st EXCEPT
       !.destination = IF found.uri.found THEN found.uri.group ELSE @,
       !.connected = IF found.uri.found THEN found.clean ELSE @,
       !.bitrate_kbps = IF found.br.found THEN float(found.br.group) ELSE @,
       !.packet_loss_pct = IF found.pl.found THEN float(found.pl.group) ELSE @]

srt_line(st, line) == srt_assign(st, srt_found(line))

RECURSIVE srt_scan(_, _, _)
srt_scan(lines, i, st) ==
    IF i = 0 THEN st ELSE srt_scan(lines, i - 1, srt_line(st, lines[i]))

srt_tail(lines) == srt_scan(lines, Len(lines), srt_status_default)

\* gauge_set tells that the four gauges were set (the file was there)
parse_srt_log(f) ==
    IF ~f.exists THEN [srt_status |-> srt_status_default, gauge_set |-> FALSE]
    ELSE [srt_status |-> srt_tail(readlines_tail(f)), gauge_set |-> TRUE]

SrtGaugesAfter(r) ==
    IF r.gauge_set
    THEN /\ srt_connected' = (IF r.srt_status.connected THEN 1 ELSE 0)
         /\ srt_bitrate' = r.srt_status.bitrate_kbps
         /\ srt_rtt' = r.srt_status.rtt_ms
         /\ srt_packet_loss' = r.srt_status.packet_loss_pct
    ELSE UNCHANGED srtGauges

(***************************************************************************)
(* load_config: the sectioned key=value file, as a mapping from            *)
(* <<section, key>> to the value text.                                     *)
(***************************************************************************)
EmptyConfig == [p \in {} |-> ""]

EndsWith(s, suf) ==
    Len(s) >= Len(suf) /\ SubSeq(s, Len(s) - Len(suf) + 1, Len(s)) = suf

IndexOf(s, c) == SetMin({i \in 1..Len(s) : Char(s, i) = c})

\* for line in f, from line i on; cur is current_section ("" while there is none)
RECURSIVE config_scan(_, _, _, _)

\* config[current_section] = {}
config_section(lines, i, config, section) ==
    config_scan(lines, i + 1, section,
                [q \in {q \in DOMAIN config : q[1] # section} |-> config[q]])

\* key, value = line.split('=', 1), with e the index of the first '='
config_key_value(lines, i, cur, config, line, e) ==
    config_scan(lines, i + 1, cur,
                (<<cur, strip(SubSeq(line, 1, e - 1))>>
                    :> strip(SubSeq(line, e + 1, Len(line)))) @@ config)

\* the loop body for the stripped line
config_line(lines, i, cur, config, line) ==
    IF Len(line) = 0 \/ StartsWith(line, "#")
    THEN config_scan(lines, i + 1, cur, config)
    ELSE IF StartsWith(line, "[") /\ EndsWith(line, "]")
    THEN config_section(lines, i, config, SubSeq(line, 2, Len(line) - 1))
    ELSE IF In("=", line) /\ cur # ""
    THEN config_key_value(lines, i, cur, config, line, IndexOf(line, "="))
    ELSE config_scan(lines, i + 1, cur, config)

config_scan(lines, i, cur, config) ==
    IF i > Len(lines) THEN config
    ELSE config_line(lines, i, cur, config, strip(lines[i]))

InstallationConfs ==
    {NoFile,
     File(<<"[inferno]", "rx_channels=4">>),
     File(<<"[inferno]", "rx_channels = 5", "[network]", "dante_ip=10.0.0.7">>),
     File(<<"# bridge", "[inferno]", "rx_channels=abc", "[srt]", "host=10.0.0.9">>)}

read_config(f) ==
    IF f.exists THEN config_scan(f.lines, 1, "", EmptyConfig) ELSE EmptyConfig

\* the mapping depends on the file alone: those of the files the administrator
\* installs are tabulated
ConfigTable == [f \in InstallationConfs |-> read_config(f)]
load_config(f) ==
    IF f \in InstallationConfs THEN ConfigTable[f] ELSE read_config(f)

\* config.get(section, {}).get(key, default)
config_get(config, section, key, default) ==
    IF <<section, key>> \in DOMAIN config THEN config[<<section, key>>] ELSE default

\* int(config.get("inferno", {}).get("rx_channels", 2))
rx_channels_of(config) ==
    IF <<"inferno", "rx_channels">> \in DOMAIN config
    THEN int(config[<<"inferno", "rx_channels">>])
    ELSE [ok |-> TRUE, val |-> 2]

\* rx_channels_of(load_config()), tabulated for the files the administrator installs
RxTable == [f \in InstallationConfs |-> rx_channels_of(ConfigTable[f])]
configured_rx_channels(f) ==
    IF f \in InstallationConfs THEN RxTable[f] ELSE rx_channels_of(load_config(f))

(***************************************************************************)
(* check_service_status                                                    *)
(***************************************************************************)
Services == {"statime", "inferno", "inferno-srt", "inferno-audio-out"}

\* what subprocess.run(['systemctl', 'is-active', ...]) does: it prints a state,
\* raises an error, or exceeds its timeout
SystemctlAnswers == {"active", "inactive", "failed", "error", "timeout"}

\* a variant whose except branch reports the service as running
check_service_status_optimistic(service_name) ==
    IF systemd[service_name] \in {"error", "timeout"} THEN TRUE
    ELSE systemd[service_name] = "active"

\* the value returned (the gauge is set to 1 for TRUE, to 0 for FALSE)
check_service_status(service_name) ==
    IF systemd[service_name] \in {"error", "timeout"} THEN FALSE
    ELSE systemd[service_name] = "active"

\* the value of a labelled gauge that was not set yet
NoSample == 0 - 1

ServiceUpAfter(names) ==
    service_up' = [s \in Services |->
                     IF s \in names
                     THEN (IF check_service_status(s) THEN 1 ELSE 0)
                     ELSE service_up[s]]

probed_services ==
    [statime |-> check_service_status("statime"),
     inferno |-> check_service_status("inferno"),
     srt |-> check_service_status("inferno-srt")]

(***************************************************************************)
(* The environment: log writers, the administrator, systemd.               *)
(***************************************************************************)
StatimeLogChanges ==
    /\ \E f \in LogNext(statimeLog, StatimeLines) : statimeLog' = f
    /\ UNCHANGED <<infernoLog, srtLog, installationConf, audioOutFile, systemd,
                   ptpGauges, srtGauges, packet_loss_rate, service_up, resp, ops>>

InfernoLogChanges ==
    /\ \E f \in LogNext(infernoLog, InfernoLines) : infernoLog' = f
    /\ UNCHANGED <<statimeLog, srtLog, installationConf, audioOutFile, systemd,
                   ptpGauges, srtGauges, packet_loss_rate, service_up, resp, ops>>

SrtLogChanges ==
    /\ \E f \in LogNext(srtLog, SrtLines) : srtLog' = f
    /\ UNCHANGED <<statimeLog, infernoLog, installationConf, audioOutFile, systemd,
                   ptpGauges, srtGauges, packet_loss_rate, service_up, resp, ops>>

InstallationConfChanges ==
    /\ \E f \in InstallationConfs \ {installationConf} : installationConf' = f
    /\ UNCHANGED <<logVars, audioOutFile, systemd, ptpGauges, srtGauges,
                   packet_loss_rate, service_up, resp, ops>>

SystemdChanges ==
    /\ \E s \in Services :
          \E a \in SystemctlAnswers \ {systemd[s]} :
             systemd' = [systemd EXCEPT ![s] = a]
    /\ UNCHANGED <<logVars, installationConf, audioOutFile, ptpGauges, srtGauges,
                   packet_loss_rate, service_up, resp, ops>>

(***************************************************************************)
(* The read endpoints.                                                     *)
(***************************************************************************)
Ok(endpoint, body) == [endpoint |-> endpoint, status |-> 200, body |-> body]
Error(endpoint, code, detail) ==
    [endpoint |-> endpoint, status |-> code, body |-> [detail |-> detail]]

\* startup_event
startup_event ==
    /\ ServiceUpAfter({"statime", "inferno", "inferno-srt"})
    /\ UNCHANGED <<logVars, installationConf, audioOutFile, systemd, ptpGauges,
                   srtGauges, packet_loss_rate, resp, ops>>

\* GET /health
health_body(services) ==
    [healthy |-> services.statime /\ services.inferno /\ services.srt,
     services |-> services]

health_check ==
    /\ ServiceUpAfter({"statime", "inferno", "inferno-srt"})
    /\ resp' = Ok("/health", health_body(probed_services))
    /\ ops' = <<>>
    /\ UNCHANGED <<logVars, installationConf, audioOutFile, systemd, ptpGauges,
                   srtGauges, packet_loss_rate>>

\* GET /status
\* the body of get_status, given what its five sources returned
get_status_with(config, services, audio_info, ptp, srt) ==
    /\ ServiceUpAfter({"statime", "inferno", "inferno-srt"})
    /\ PtpGaugesAfter(ptp)
    /\ SrtGaugesAfter(srt)
    /\ resp' = Ok("/status",
          [services |-> services,
           audio |-> [rx_channels |-> audio_info.rx_channels,
                      tx_channels |-> audio_info.tx_channels,
                      sample_rate |-> audio_info.sample_rate],
           ptp |-> [synchronized |-> ptp.ptp_status.synchronized,
                    clock_offset_ns |-> ptp.ptp_status.clock_offset_ns],
           srt |-> [connected |-> srt.srt_status.connected,
                    destination |-> srt.srt_status.destination],
           device |-> [name |-> config_get(config, "inferno", "device_name", "Unknown"),
                       dante_ip |-> config_get(config, "network", "dante_ip", "Unknown")]])
    /\ ops' = <<>>
    /\ UNCHANGED <<logVars, installationConf, audioOutFile, systemd,
                   packet_loss_rate>>

get_status ==
    get_status_with(load_config(installationConf), probed_services,
                    parse_inferno_log(infernoLog), parse_statime_log(statimeLog),
                    parse_srt_log(srtLog))

\* GET /audio/status
\* the body of get_audio_status, given the parsed log and int() of rx_channels
get_audio_status_with(audio_info, rx_channels) ==
    /\ resp' = IF rx_channels.ok
               THEN Ok("/audio/status",
                       [sample_rate |-> audio_info.sample_rate,
                        rx_channels |-> rx_channels.val,
                        channels |-> IF rx_channels.val > 0 THEN rx_channels.val ELSE 0,
                        silence_detected |-> FALSE])
               ELSE Error("/audio/status", 500, "Internal Server Error")
    /\ ops' = <<>>
    /\ UNCHANGED <<logVars, installationConf, audioOutFile, systemd, ptpGauges,
                   srtGauges, packet_loss_rate, service_up>>

get_audio_status ==
    get_audio_status_with(parse_inferno_log(infernoLog),
                          configured_rx_channels(installationConf))

\* GET /ptp/status
\* the body of get_ptp_status, given what parse_statime_log returned
get_ptp_status_with(r) ==
    /\ PtpGaugesAfter(r)
    /\ resp' = Ok("/ptp/status", r.ptp_status)
    /\ ops' = <<>>
    /\ UNCHANGED <<logVars, installationConf, audioOutFile, systemd,
                   srtGauges, packet_loss_rate, service_up>>

get_ptp_status == get_ptp_status_with(parse_statime_log(statimeLog))

\* GET /srt/status
\* the body of get_srt_status, given what parse_srt_log and load_config returned
get_srt_status_with(r, config) ==
    /\ SrtGaugesAfter(r)
    /\ resp' = Ok("/srt/status",
          [connected |-> r.srt_status.connected,
           destination |->
              IF r.srt_status.destination # None THEN r.srt_status.destination
              ELSE "srt://" \o config_get(config, "srt", "host", "unknown")
                     \o ":" \o config_get(config, "srt", "port", "0"),
           mode |-> config_get(config, "srt", "mode", "unknown"),
           bitrate_kbps |-> r.srt_status.bitrate_kbps,
           rtt_ms |-> r.srt_status.rtt_ms,
           packet_loss_pct |-> r.srt_status.packet_loss_pct,
           latency_ms |-> config_get(config, "srt", "latency_ms", "0")])
    /\ ops' = <<>>
    /\ UNCHANGED <<logVars, installationConf, audioOutFile, systemd,
                   ptpGauges, packet_loss_rate, service_up>>

get_srt_status ==
    get_srt_status_with(parse_srt_log(srtLog), load_config(installationConf))

\* a variant that divides by the packets received alone
loss_rate_of_received(received, lost) ==
    IF received > 0 THEN Frac(lost, received) ELSE Zero

\* loss_rate of GET /network/status
loss_rate_of(received, lost) ==
    IF received + lost > 0 THEN Frac(lost, received + lost) ELSE Zero

\* GET /network/status
\* the end of get_network_status, once loss_rate is computed
get_network_status_rate(config, audio_info, loss_rate) ==
    /\ packet_loss_rate' = loss_rate
    /\ resp' = Ok("/network/status",
          [dante_interface |-> config_get(config, "network", "dante_interface", "eth0"),
           dante_ip |-> config_get(config, "network", "dante_ip", "Unknown"),
           packets_received |-> audio_info.packets_received,
           packets_lost |-> audio_info.packets_lost,
           packet_loss_rate |-> loss_rate])
    /\ ops' = <<>>
    /\ UNCHANGED <<logVars, installationConf, audioOutFile, systemd, ptpGauges,
                   srtGauges, service_up>>

\* the body of get_network_status, given what load_config and parse_inferno_log
\* returned
get_network_status_with(config, audio_info) ==
    get_network_status_rate(config, audio_info,
        loss_rate_of(audio_info.packets_received, audio_info.packets_lost))

get_network_status ==
    get_network_status_with(load_config(installationConf), parse_inferno_log(infernoLog))

(***************************************************************************)
(* The hardware audio output configuration file.                           *)
(***************************************************************************)
audio_output_default ==
    [enabled |-> FALSE, device |-> "auto", stereo_pair |-> 1, channel_l |-> 0,
     channel_r |-> 1, rx_channels |-> 2]

\* the text before the next '=', or all of it when there is none
up_to_eq(rest) ==
    IF In("=", rest) THEN SubSeq(rest, 1, IndexOf(rest, "=") - 1) ELSE rest

\* line.split('=')[1]
split_eq_1(line) == up_to_eq(SubSeq(line, IndexOf(line, "=") + 1, Len(line)))

IsQuote(c) == c = "\""

\* a variant that leaves the quotes in place
strip_quotes_kept(s) == s

\* s from index a on, without the quotes at its end
strip_quotes_from(s, a) ==
    SubSeq(s, a, IF a > Len(s) THEN a - 1
                 ELSE CHOOSE j \in a..Len(s) :
                         /\ ~IsQuote(Char(s, j))
                         /\ \A k \in (j + 1)..Len(s) : IsQuote(Char(s, k)))

\* s.strip('"')
strip_quotes(s) == strip_quotes_from(s, RunEnd(s, 1, IsQuote))

IntKeys ==
    [stereo_pair |-> "STEREO_PAIR=", channel_l |-> "CHANNEL_L=",
     channel_r |-> "CHANNEL_R=", rx_channels |-> "RX_CHANNELS="]

\* line.split('=')[1].strip('"')
read_value(line) == strip_quotes(split_eq_1(line))

\* for line in f, from line i on; a ValueError of int() ends the loop with the
\* fields read so far
RECURSIVE read_scan(_, _, _)

\* config[k] = int(...), then the rest of the loop
read_int(lines, i, config, k, number) ==
    IF number.ok
    THEN read_scan(lines, i + 1, [config EXCEPT ![k] = number.val])
    ELSE config

\* the loop body for the stripped line
read_line(lines, i, config, line) ==
    IF StartsWith(line, "ENABLED=")
    THEN read_scan(lines, i + 1,
                   [config EXCEPT !.enabled = (lower(read_value(line)) = "true")])
    ELSE IF StartsWith(line, "DEVICE=")
    THEN read_scan(lines, i + 1, [config EXCEPT !.device = read_value(line)])
    ELSE IF \E k \in DOMAIN IntKeys : StartsWith(line, IntKeys[k])
    THEN read_int(lines, i, config,
                  CHOOSE k \in DOMAIN IntKeys : StartsWith(line, IntKeys[k]),
                  int(read_value(line)))
    ELSE read_scan(lines, i + 1, config)

read_scan(lines, i, config) ==
    IF i > Len(lines) THEN config
    ELSE read_line(lines, i, config, strip(lines[i]))

read_file(f) ==
    IF ~f.exists THEN audio_output_default
    ELSE read_scan(f.lines, 1, audio_output_default)

\* str(flag).lower()
bool_text(flag) == lower(IF flag THEN "True" ELSE "False")

Quoted(key, text) == key \o "=\"" \o text \o "\""

\* the lines write_audio_output_config writes for config
format_lines(config) ==
    <<"# Hardware audio output configuration",
      "# This file can be modified via API or manually",
      Quoted("ENABLED", bool_text(config.enabled)),
      Quoted("DEVICE", config.device),
      Quoted("STEREO_PAIR", str(config.stereo_pair)),
      Quoted("CHANNEL_L", str((config.stereo_pair - 1) * 2)),
      Quoted("CHANNEL_R", str((config.stereo_pair - 1) * 2 + 1)),
      Quoted("RX_CHANNELS", str(config.rx_channels))>>

FileLines == Len(format_lines(audio_output_default))

\* the lines written and the record read back depend on the config and on the
\* file alone: they are tabulated for the configs the endpoints persist and for
\* the files these writes leave
Devices == {"hdmi", "headphones", "auto"}
PersistedConfigs ==
    [enabled : BOOLEAN, device : Devices, stereo_pair : 1..MaxPair,
     rx_channels : {RxTable[f].val : f \in InstallationConfs}]
WrittenTable == [c \in PersistedConfigs |-> format_lines(c)]
written_of(c) ==
    IF c \in PersistedConfigs THEN WrittenTable[c] ELSE format_lines(c)

\* the keys of config that write_audio_output_config uses
written_lines(config) ==
    written_of([enabled |-> config.enabled, device |-> config.device,
                stereo_pair |-> config.stereo_pair,
                rx_channels |-> config.rx_channels])

LeftFiles ==
    {File(SubSeq(WrittenTable[c], 1, k)) :
        c \in PersistedConfigs, k \in {0, FileLines - 3, FileLines}}
ReadTable == [f \in LeftFiles |-> read_file(f)]
read_audio_output_config(f) ==
    IF f \in LeftFiles THEN ReadTable[f] ELSE read_file(f)

\* how a call of write_audio_output_config ends: all lines written ("ok"); the
\* directory or the file could not be opened ("open_failed", file untouched); or
\* the file was truncated by open() and writing failed after `cut` lines: after
\* none, or after the STEREO_PAIR line
FailureCuts == {0, FileLines - 3}
WriteOutcomes ==
    {[kind |-> "ok", cut |-> FileLines], [kind |-> "open_failed", cut |-> 0]}
      \cup {[kind |-> "write_failed", cut |-> k] : k \in FailureCuts}

\* a variant that returns True whatever happened
write_audio_output_config_true(f, config, outcome) ==
    [file |-> IF outcome.kind = "open_failed" THEN f
              ELSE File(SubSeq(written_lines(config), 1, outcome.cut)),
     ok |-> TRUE]

\* the file after the call, and the value returned
write_audio_output_config(f, config, outcome) ==
    [file |-> IF outcome.kind = "open_failed" THEN f
              ELSE File(SubSeq(written_lines(config), 1, outcome.cut)),
     ok |-> outcome.kind = "ok"]

(***************************************************************************)
(* The hardware audio output endpoints.                                    *)
(***************************************************************************)
RequestedDevices == {"hdmi", "auto", "usb"}

Requests ==
    [enabled : BOOLEAN, device : RequestedDevices, stereo_pair : 0..MaxPair]

\* how subprocess.run(['systemctl', <command>, ...], check=True, timeout=10) ends
ControlOutcomes == {"ok", "CalledProcessError", "TimeoutExpired", "OSError"}

\* the service after a control command that ended with outcome
SystemdAfter(command, outcome) ==
    IF outcome = "ok"
    THEN [systemd EXCEPT !["inferno-audio-out"] =
             IF command = "stop" THEN "inactive" ELSE "active"]
    ELSE systemd

PostError(endpoint, code, detail, request) ==
    [endpoint |-> endpoint, status |-> code, body |-> [detail |-> detail],
     request |-> request]

\* the body of get_audio_output, given the config read and the probe's answer
get_audio_output_with(config, service_running) ==
    /\ ServiceUpAfter({"inferno-audio-out"})
    /\ resp' = Ok("/audio/output",
          [enabled |-> config.enabled, device |-> config.device,
           stereo_pair |-> config.stereo_pair, channel_l |-> config.channel_l,
           channel_r |-> config.channel_r, service_running |-> service_running])
    /\ ops' = <<>>
    /\ UNCHANGED <<logVars, installationConf, audioOutFile, systemd, ptpGauges,
                   srtGauges, packet_loss_rate>>

\* GET /audio/output
get_audio_output ==
    get_audio_output_with(read_audio_output_config(audioOutFile),
                          check_service_status("inferno-audio-out"))

\* the command set_audio_output runs for a config
set_command(enabled) == IF enabled THEN "restart" ELSE "stop"

\* the command toggle_audio_output runs for a config
toggle_command(enabled) == IF enabled THEN "start" ELSE "stop"

\* a variant that rounds up by adding one pair, also for an even channel count
max_pairs_of_plus_one(rx_channels) == rx_channels \div 2 + 1

\* max_pairs of set_audio_output
max_pairs_of(rx_channels) == (rx_channels + 1) \div 2

\* the validation of set_audio_output: the 400 detail, or "" for a valid request;
\* "ValueError" when int() of rx_channels raises
validate(audio_config, rx_channels) ==
    IF audio_config.device \notin Devices THEN "Device must be 'hdmi', 'headphones', or 'auto'"
    ELSE IF audio_config.stereo_pair < 1 THEN "Stereo pair must be >= 1"
    ELSE IF ~rx_channels.ok THEN "ValueError"
    ELSE IF audio_config.stereo_pair > max_pairs_of(rx_channels.val)
         THEN "Stereo pair exceeds available pairs"
    ELSE ""

\* the end of a write request, once write_audio_output_config has returned
\* written: the 500 of a failed write, or the control command and its outcome
control_after(endpoint, request, command, success, written) ==
    /\ audioOutFile' = written.file
    /\ IF ~written.ok
       THEN /\ resp' = PostError(endpoint, 500, "Failed to write configuration", request)
            /\ ops' = <<"write">>
            /\ UNCHANGED systemd
       ELSE \E control \in ControlOutcomes :
               /\ systemd' = SystemdAfter(command, control)
               /\ ops' = <<"write", command>>
               /\ resp' = IF control = "ok"
                          THEN [endpoint |-> endpoint, status |-> 200,
                                body |-> success, request |-> request]
                          ELSE PostError(endpoint, 500, control, request)

\* the part of a write request after validation: persist config, then run the
\* control command; every raised exception ends the request with a 500
persist_and_control(endpoint, request, config, command, success) ==
    \E outcome \in WriteOutcomes :
       control_after(endpoint, request, command, success,
                     write_audio_output_config(audioOutFile, config, outcome))

\* set_audio_output after the two checks of the request alone, given int() of
\* rx_channels
set_audio_output_checked(audio_config, rx_channels, detail) ==
    IF detail # ""
    THEN /\ resp' = PostError("/audio/output",
                              IF detail = "ValueError" THEN 500 ELSE 400,
                              detail, audio_config)
         /\ ops' = <<>>
         /\ UNCHANGED <<audioOutFile, systemd>>
    ELSE persist_and_control("/audio/output", audio_config,
                             [enabled |-> audio_config.enabled,
                              device |-> audio_config.device,
                              stereo_pair |-> audio_config.stereo_pair,
                              rx_channels |-> rx_channels.val],
                             set_command(audio_config.enabled),
                             [success |-> TRUE, config |-> audio_config])

set_audio_output_with(audio_config, rx_channels) ==
    set_audio_output_checked(audio_config, rx_channels,
                             validate(audio_config, rx_channels))

\* POST /audio/output
set_audio_output ==
    /\ \E audio_config \in Requests :
          set_audio_output_with(audio_config, configured_rx_channels(installationConf))
    /\ UNCHANGED <<logVars, installationConf, ptpGauges, srtGauges,
                   packet_loss_rate, service_up>>

\* toggle_audio_output, given the config read and the flag it holds inverted
toggle_audio_output_with(old, enabled) ==
    persist_and_control("/audio/output/toggle", [read |-> ~enabled],
                        [old EXCEPT !.enabled = enabled],
                        toggle_command(enabled),
                        [success |-> TRUE, enabled |-> enabled])

toggle_audio_output_read(old) == toggle_audio_output_with(old, ~old.enabled)

\* POST /audio/output/toggle
toggle_audio_output ==
    /\ toggle_audio_output_read(read_audio_output_config(audioOutFile))
    /\ UNCHANGED <<logVars, installationConf, ptpGauges, srtGauges,
                   packet_loss_rate, service_up>>

(***************************************************************************)
(* toggle_audio_output step by step, for several requests held at a time.  *)
(* A request arrives on its connection, then its handler reads the file,   *)
(* writes it and runs the control command.                                 *)
(***************************************************************************)
ToggleRequests == 1..MaxRequests

\* a connection with no request: pc tells where the request stands, config is
\* the handler's local config, overlapped tells that the request arrived while
\* the handler of another one was running, written how its write ended
NoToggle ==
    [pc |-> "none", config |-> audio_output_default, overlapped |-> FALSE,
     written |-> "no"]

\* the handler of request q has read the file and has not returned
mid_handler(q) == toggles[q].pc \in {"read", "written"}

\* a variant in which handlers run on the threads of a pool: one starts whatever
\* the others are doing
may_start_threadpool(r) == TRUE

\* the handler is a coroutine without an await, run by the one event loop of
\* uvicorn.run: it starts when no other handler is running
may_start(r) == \A q \in ToggleRequests : ~mid_handler(q)

\* config["enabled"] = not config["enabled"]
toggled(config) == [config EXCEPT !.enabled = ~config.enabled]

\* a POST /audio/output/toggle arrives on connection r
toggle_arrives(r) ==
    /\ toggles[r].pc = "none"
    /\ toggles' = [toggles EXCEPT
                      ![r].pc = "pending",
                      ![r].overlapped = \E q \in ToggleRequests : mid_handler(q)]
    /\ UNCHANGED <<logVars, installationConf, audioOutFile, systemd, ptpGauges,
                   srtGauges, packet_loss_rate, service_up, resp, ops>>

\* the handler of request r starts: it reads the file and inverts the flag
toggle_reads(r) ==
    /\ toggles[r].pc = "pending"
    /\ may_start(r)
    /\ toggles' = [toggles EXCEPT
                      ![r].pc = "read",
                      ![r].config = toggled(read_audio_output_config(audioOutFile))]
    /\ UNCHANGED <<logVars, installationConf, audioOutFile, systemd, ptpGauges,
                   srtGauges, packet_loss_rate, service_up, resp, ops>>

\* the handler of request r after write_audio_output_config returned written
toggle_written(r, written) ==
    /\ audioOutFile' = written.file
    /\ IF written.ok
       THEN /\ toggles' = [toggles EXCEPT ![r].pc = "written", ![r].written = "ok"]
            /\ UNCHANGED <<resp, ops>>
       ELSE /\ toggles' = [toggles EXCEPT ![r].pc = "done", ![r].written = "failed"]
            /\ resp' = PostError("/audio/output/toggle", 500,
                                 "Failed to write configuration",
                                 [read |-> ~toggles[r].config.enabled])
            /\ ops' = <<"write">>
    /\ UNCHANGED <<logVars, installationConf, systemd, ptpGauges, srtGauges,
                   packet_loss_rate, service_up>>

\* the handler of request r writes the config it holds
toggle_writes(r) ==
    /\ toggles[r].pc = "read"
    /\ \E outcome \in WriteOutcomes :
          toggle_written(r, write_audio_output_config(audioOutFile,
                                                      toggles[r].config, outcome))

\* the handler of request r after its control command ended with control
toggle_controlled(r, enabled, control) ==
    /\ systemd' = SystemdAfter(toggle_command(enabled), control)
    /\ ops' = <<"write", toggle_command(enabled)>>
    /\ resp' = IF control = "ok"
               THEN [endpoint |-> "/audio/output/toggle", status |-> 200,
                     body |-> [success |-> TRUE, enabled |-> enabled],
                     request |-> [read |-> ~enabled]]
               ELSE PostError("/audio/output/toggle", 500, control,
                              [read |-> ~enabled])
    /\ toggles' = [toggles EXCEPT ![r].pc = "done"]
    /\ UNCHANGED <<logVars, installationConf, audioOutFile, ptpGauges, srtGauges,
                   packet_loss_rate, service_up>>

\* the handler of request r runs systemctl start or stop, and returns
toggle_controls(r) ==
    /\ toggles[r].pc = "written"
    /\ \E control \in ControlOutcomes :
          toggle_controlled(r, toggles[r].config.enabled, control)

Init ==
    /\ statimeLog = NoFile
    /\ infernoLog = NoFile
    /\ srtLog = NoFile
    /\ installationConf = NoFile
    /\ audioOutFile = NoFile
    /\ systemd = [s \in Services |-> "inactive"]
    /\ ptp_clock_offset = 0
    /\ ptp_synchronized = 0
    /\ srt_connected = 0
    /\ srt_bitrate = Zero
    /\ srt_rtt = Zero
    /\ srt_packet_loss = Zero
    /\ packet_loss_rate = Zero
    /\ service_up = [s \in Services |-> NoSample]
    /\ resp = [endpoint |-> "none", status |-> 0, body |-> [none |-> TRUE]]
    /\ ops = <<>>
    /\ toggles = [r \in ToggleRequests |-> NoToggle]

(***************************************************************************)
(* Specifications: one per part of the system, each with the environment   *)
(* of that part.                                                           *)
(***************************************************************************)
NextClock ==
    \/ StatimeLogChanges /\ UNCHANGED toggles
    \/ get_ptp_status /\ UNCHANGED toggles
    \/ get_status /\ UNCHANGED toggles

SpecClock == Init /\ [][NextClock]_vars

NextStream ==
    \/ SrtLogChanges /\ UNCHANGED toggles
    \/ get_srt_status /\ UNCHANGED toggles
    \/ get_status /\ UNCHANGED toggles

SpecStream == Init /\ [][NextStream]_vars

NextBridge ==
    \/ InfernoLogChanges /\ UNCHANGED toggles
    \/ InstallationConfChanges /\ UNCHANGED toggles
    \/ get_network_status /\ UNCHANGED toggles
    \/ get_audio_status /\ UNCHANGED toggles

SpecBridge == Init /\ [][NextBridge]_vars

NextHealth ==
    \/ SystemdChanges /\ UNCHANGED toggles
    \/ startup_event /\ UNCHANGED toggles
    \/ health_check /\ UNCHANGED toggles
    \/ get_audio_output /\ UNCHANGED toggles

SpecHealth == Init /\ [][NextHealth]_vars

NextRouting ==
    \/ InstallationConfChanges /\ UNCHANGED toggles
    \/ set_audio_output /\ UNCHANGED toggles
    \/ toggle_audio_output /\ UNCHANGED toggles

SpecRouting == Init /\ [][NextRouting]_vars

NextToggle ==
    \/ \E r \in ToggleRequests : toggle_arrives(r)
    \/ \E r \in ToggleRequests : toggle_reads(r)
    \/ \E r \in ToggleRequests : toggle_writes(r)
    \/ \E r \in ToggleRequests : toggle_controls(r)

SpecToggle == Init /\ [][NextToggle]_vars

\* write_audio_output_config and read_audio_output_config called directly, for
\* every config with a device of the list and a stereo pair from 1 up
RoundTripConfigs ==
    [enabled : BOOLEAN, device : Devices, stereo_pair : 1..MaxStereoPair,
     rx_channels : {2}]

\* the calls that open the file: all lines are written, or writing fails
RoundTripOutcomes == {o \in WriteOutcomes : o.kind # "open_failed"}

\* what a call of write_audio_output_config leaves and returns
written_response(config, written) ==
    /\ audioOutFile' = written.file
    /\ resp' = [endpoint |-> "write_audio_output_config", status |-> 0,
                body |-> [ok |-> written.ok], request |-> config]

call_write ==
    /\ \E config \in RoundTripConfigs, outcome \in RoundTripOutcomes :
          written_response(config,
                           write_audio_output_config(audioOutFile, config, outcome))
    /\ ops' = <<"write">>
    /\ UNCHANGED <<logVars, installationConf, systemd, ptpGauges, srtGauges,
                   packet_loss_rate, service_up>>

call_read ==
    /\ resp' = [endpoint |-> "read_audio_output_config", status |-> 0,
                body |-> read_audio_output_config(audioOutFile)]
    /\ ops' = <<>>
    /\ UNCHANGED <<logVars, installationConf, audioOutFile, systemd, ptpGauges,
                   srtGauges, packet_loss_rate, service_up>>

NextRoundTrip ==
    \/ call_write /\ UNCHANGED toggles
    \/ call_read /\ UNCHANGED toggles

SpecRoundTrip == Init /\ [][NextRoundTrip]_vars

(***************************************************************************)
(* Properties.                                                             *)
(***************************************************************************)
SetMax(S) == CHOOSE m \in S : \A n \in S : n <= m

\* the indices of the lines of the tail of f in which the field is matched
SrtHits(f, field) ==
    {i \in 1..Len(readlines_tail(f)) : srt_found(readlines_tail(f)[i])[field].found}

\* the text matched for the field in the line of the tail closest to the end
SrtLatest(f, field) ==
    srt_found(readlines_tail(f)[SetMax(SrtHits(f, field))])[field].group

\* C1: when several lines of the tail match the same field, the value returned
\* is the one of the matching line closest to the end of the file.  Stated here
\* for the fields of parse_srt_log, as GET /srt/status returns them.
C1_MostRecentWins ==
    [][(resp'.endpoint = "/srt/status" /\ srtLog' = srtLog /\ srtLog.exists) =>
         /\ SrtHits(srtLog, "br") # {} =>
               resp'.body.bitrate_kbps = float(SrtLatest(srtLog, "br"))
         /\ SrtHits(srtLog, "pl") # {} =>
               resp'.body.packet_loss_pct = float(SrtLatest(srtLog, "pl"))
         /\ SrtHits(srtLog, "uri") # {} =>
               resp'.body.destination = SrtLatest(srtLog, "uri")]_vars

\* the clock status of a response, for the two endpoints that return one
IsClockResponse(r) == r.endpoint \in {"/ptp/status", "/status"}
ClockOf(r) == IF r.endpoint = "/status" THEN r.body.ptp ELSE r.body

\* C2 as stated: every clock status returned has synchronized = true exactly
\* when |clock_offset_ns| < 100000, also with a missing log or no offset line.
C2_SynchronizedIffBelowThreshold ==
    IsClockResponse(resp) =>
        (ClockOf(resp).synchronized <=> Abs(ClockOf(resp).clock_offset_ns) < 100000)

\* the tail of the statime log holds a line from which an offset is extracted
HasOffsetLine(f) ==
    /\ f.exists
    /\ \E i \in 1..Len(readlines_tail(f)) : statime_found(readlines_tail(f)[i]).offset.found

\* C2 amended: synchronized = true exactly when an offset was extracted from the
\* tail and |clock_offset_ns| < 100000; with a missing log or no offset line the
\* status is synchronized = false with clock_offset_ns = 0.
C2_SynchronizedIffParsedBelowThreshold ==
    [][(IsClockResponse(resp') /\ statimeLog' = statimeLog) =>
         /\ ClockOf(resp').synchronized <=>
               (HasOffsetLine(statimeLog) /\ Abs(ClockOf(resp').clock_offset_ns) < 100000)
         /\ ~HasOffsetLine(statimeLog) => ClockOf(resp').clock_offset_ns = 0]_vars

\* C2 witness: the boundary value 99999 was returned as synchronized
C2_Witness ==
    /\ resp.endpoint = "/ptp/status"
    /\ resp.body.clock_offset_ns = 99999
    /\ resp.body.synchronized
    /\ statimeLog.exists /\ Len(statimeLog.lines) = 2

\* the network status of a response
IsNetworkResponse(r) == r.endpoint = "/network/status"

\* the loss rate is the quotient lost / (received + lost), within [0, 1]
LossRateIsQuotient(b) ==
    /\ b.packet_loss_rate.den > 0
    /\ 0 <= b.packet_loss_rate.num
    /\ b.packet_loss_rate.num <= b.packet_loss_rate.den
    /\ b.packets_received + b.packets_lost > 0 =>
          b.packet_loss_rate.num * (b.packets_received + b.packets_lost)
             = b.packets_lost * b.packet_loss_rate.den

\* C3 as stated: the rate is the quotient, within [0, 1], computed without a
\* division by zero, and it is 0.0 exactly when both counts are zero.
C3_LossRateZeroIffBothZero ==
    IsNetworkResponse(resp) =>
        /\ resp.status = 200
        /\ LossRateIsQuotient(resp.body)
        /\ resp.body.packet_loss_rate = Zero <=>
              (resp.body.packets_received = 0 /\ resp.body.packets_lost = 0)

\* C3 amended: the rate is the quotient, within [0, 1], computed without a
\* division by zero, and it is 0.0 exactly when packets_lost is zero.
C3_LossRateZeroIffNoneLost ==
    IsNetworkResponse(resp) =>
        /\ resp.status = 200
        /\ LossRateIsQuotient(resp.body)
        /\ resp.body.packet_loss_rate = Zero <=> resp.body.packets_lost = 0
        /\ (resp.body.packets_received = 0 /\ resp.body.packets_lost = 0) =>
              resp.body.packet_loss_rate = Zero

\* C3 witness: packets were received, none lost, and the rate returned is 0.0
C3_Witness ==
    /\ IsNetworkResponse(resp)
    /\ resp.body.packets_received = 10
    /\ resp.body.packets_lost = 0
    /\ resp.body.packet_loss_rate = Zero

Flag(b) == IF b THEN 1 ELSE 0

\* C4: after a call that returns a clock or stream status, the gauges equal the
\* values of the snapshot the call returned.
C4_GaugesMirrorSnapshot ==
    /\ IsClockResponse(resp) =>
          /\ ptp_clock_offset = ClockOf(resp).clock_offset_ns
          /\ ptp_synchronized = Flag(ClockOf(resp).synchronized)
    /\ resp.endpoint = "/srt/status" =>
          /\ srt_connected = Flag(resp.body.connected)
          /\ srt_bitrate = resp.body.bitrate_kbps
          /\ srt_packet_loss = resp.body.packet_loss_pct
    /\ resp.endpoint = "/status" =>
          srt_connected = Flag(resp.body.srt.connected)

\* ceil(n / 2)
CeilHalf(n) ==
    CHOOSE k \in (0 - Abs(n))..(Abs(n) + 1) : 2 * k >= n /\ 2 * (k - 1) < n

\* a request POST /audio/output has to reject, given the installation config
InvalidRequest(request, conf) ==
    \/ request.device \notin {"hdmi", "headphones", "auto"}
    \/ request.stereo_pair < 1
    \/ /\ configured_rx_channels(conf).ok
       /\ request.stereo_pair > CeilHalf(configured_rx_channels(conf).val)

\* C5: POST /audio/output with a device outside the list, a stereo_pair < 1 or a
\* stereo_pair > ceil(rx_channels/2) is answered 400, the persisted file is left
\* as it was (or absent) and no service-control request is issued.
C5_InvalidRejectedBeforePersistence ==
    [][(/\ resp'.endpoint = "/audio/output"
        /\ installationConf' = installationConf
        /\ InvalidRequest(resp'.request, installationConf)) =>
          /\ resp'.status = 400
          /\ audioOutFile' = audioOutFile
          /\ systemd' = systemd
          /\ ops' = <<>>]_vars

\* C5 witness: a stereo pair beyond the available pairs was rejected while a
\* file persisted earlier is in place
C5_Witness ==
    /\ resp.endpoint = "/audio/output"
    /\ resp.status = 400
    /\ resp.request.device = "hdmi"
    /\ resp.request.stereo_pair = 2
    /\ audioOutFile.exists /\ Len(audioOutFile.lines) = FileLines

\* C6: a config written by write_audio_output_config (the call returning True) and
\* read back by read_audio_output_config has the same enabled, device and
\* stereo_pair, with channel_l = 2*(stereo_pair-1) and channel_r = channel_l + 1.
C6_RoundTrip ==
    [][(/\ resp.endpoint = "write_audio_output_config"
        /\ resp.body.ok
        /\ resp'.endpoint = "read_audio_output_config") =>
          /\ resp'.body.enabled = resp.request.enabled
          /\ resp'.body.device = resp.request.device
          /\ resp'.body.stereo_pair = resp.request.stereo_pair
          /\ resp'.body.channel_l = 2 * (resp.request.stereo_pair - 1)
          /\ resp'.body.channel_r = resp'.body.channel_l + 1]_vars

\* C6 witness: the pair 10 was written, enabled, for the headphones and read back
C6_Witness ==
    /\ resp.endpoint = "read_audio_output_config"
    /\ Len(audioOutFile.lines) = FileLines
    /\ audioOutFile.lines[5] = "STEREO_PAIR=\"10\""
    /\ resp.body.stereo_pair = 10
    /\ resp.body.channel_r = 19
    /\ resp.body.enabled
    /\ resp.body.device = "headphones"

ReadEndpoints ==
    {"/status", "/audio/status", "/ptp/status", "/srt/status", "/network/status",
     "/audio/output"}

\* C7: every read endpoint answers with a success, whatever its log files and
\* config files hold.
C7_ReadEndpointsNeverFail ==
    resp.endpoint \in ReadEndpoints => resp.status = 200

HealthServices == {"statime", "inferno", "inferno-srt"}
HealthFlag(body, s) ==
    IF s = "statime" THEN body.services.statime
    ELSE IF s = "inferno" THEN body.services.inferno ELSE body.services.srt

\* C8: GET /health answers, with healthy = true exactly when the three services
\* are running; each service's flag and service_up gauge tell whether that
\* service is active, a probe that fails or times out giving false and 0 for
\* that service alone.
C8_HealthIsConjunction ==
    [][health_check =>
          /\ resp'.endpoint = "/health" /\ resp'.status = 200
          /\ resp'.body.healthy <=> \A s \in HealthServices : systemd[s] = "active"
          /\ \A s \in HealthServices :
                /\ HealthFlag(resp'.body, s) <=> systemd[s] = "active"
                /\ service_up'[s] = Flag(systemd[s] = "active")
                /\ systemd[s] \in {"error", "timeout"} =>
                      ~HealthFlag(resp'.body, s) /\ service_up'[s] = 0]_vars

\* C8 witness: one probe timed out, the two other services are running, and the
\* answer is unhealthy with the two other flags true
C8_Witness ==
    /\ resp.endpoint = "/health"
    /\ ~resp.body.healthy
    /\ resp.body.services.statime /\ resp.body.services.srt
    /\ ~resp.body.services.inferno
    /\ systemd["inferno"] = "timeout"
    /\ service_up["inferno"] = 0 /\ service_up["statime"] = 1

WriteEndpoints == {"/audio/output", "/audio/output/toggle"}
ControlCommands == {"restart", "start", "stop"}

\* the persisted file holds what the request asked for
PersistedAsRequested ==
    LET config == read_audio_output_config(audioOutFile)
    IN  /\ audioOutFile.exists
        /\ Len(audioOutFile.lines) = FileLines
        /\ IF resp.endpoint = "/audio/output"
           THEN /\ config.enabled = resp.request.enabled
                /\ config.device = resp.request.device
                /\ config.stereo_pair = resp.request.stereo_pair
           ELSE config.enabled = ~resp.request.read

C10_ToggleControlsLikeSet ==
    (resp.endpoint = "/audio/output/toggle" /\ Len(ops) = 2) =>
        /\ ops[2] = set_command(~resp.request.read)
        /\ ops[2] = IF ~resp.request.read THEN "restart" ELSE "stop"

\* the tail of the statime log holds a line that carries a state marker
HasStateLine(f) ==
    /\ f.exists
    /\ \E i \in 1..Len(readlines_tail(f)) : statime_found(readlines_tail(f)[i]).state # ""

\* C13: state and clock_offset_ns are resolved independently: the state returned
\* is 'unknown' only if no line of the tail carries a state marker, wherever the
\* offset line sits.
C13_StateResolvedIndependently ==
    [][(resp'.endpoint = "/ptp/status" /\ statimeLog' = statimeLog
           /\ HasStateLine(statimeLog)) =>
         resp'.body.state # "unknown"]_vars

\* the stream status of a response, for the two endpoints that return one
IsStreamResponse(r) == r.endpoint \in {"/srt/status", "/status"}
StreamOf(r) == IF r.endpoint = "/status" THEN r.body.srt ELSE r.body

\* the line of the tail of f from which the status returned takes its
\* destination: the last matching line the reverse walk meets
SrtSupplier(f) == SetMin(SrtHits(f, "uri"))
SrtSupplierFound(f) == srt_found(readlines_tail(f)[SrtSupplier(f)])

\* C12: in every stream status returned, destination and connected come from
\* one line: when a line supplied the destination, connected is true exactly
\* when that line holds neither 'error' nor 'failed', whatever the other lines
\* hold; when no line supplied a destination, connected is false.
C12_ConnectedFromDestinationLine ==
    [][(IsStreamResponse(resp') /\ srtLog' = srtLog) =>
         IF srtLog.exists /\ SrtHits(srtLog, "uri") # {}
         THEN /\ StreamOf(resp').destination = SrtSupplierFound(srtLog).uri.group
              /\ StreamOf(resp').connected <=> SrtSupplierFound(srtLog).clean
         ELSE /\ ~StreamOf(resp').connected
              /\ resp'.endpoint = "/status" => StreamOf(resp').destination = None]_vars

\* C12 witness: a status returned as connected, with the destination of a clean
\* line, from a tail whose other line holds 'failed'
C12_Witness ==
    /\ resp.endpoint = "/status"
    /\ srtLog.exists
    /\ srtLog.lines = <<"Opening srt://10.0.0.1:9000 for writing",
                        "srt://10.0.0.2:9000 connection failed">>
    /\ resp.body.srt.destination = "srt://10.0.0.1:9000"
    /\ resp.body.srt.connected

\* the file holds all the lines of a write
HoldsAllLines(f) == f.exists /\ Len(f.lines) = FileLines

\* the relations between the fields of a routing config
RoutingValid(c) ==
    /\ c.device \in Devices
    /\ c.stereo_pair >= 1
    /\ c.stereo_pair <= CeilHalf(c.rx_channels)
    /\ c.channel_l = 2 * (c.stereo_pair - 1)
    /\ c.channel_r = c.channel_l + 1

\* the two configs differ in the enabled flag alone
OnlyEnabledToggled(old, new) ==
    /\ new.enabled = ~old.enabled
    /\ new.device = old.device
    /\ new.stereo_pair = old.stereo_pair
    /\ new.rx_channels = old.rx_channels

\* C14: starting from an absent file, after any sequence of POST /audio/output
\* and POST /audio/output/toggle, the persisted file holds a device of the three
\* allowed, 1 <= stereo_pair <= ceil(rx_channels / 2) for the rx_channels
\* persisted with it, channel_l = 2 * (stereo_pair - 1) and channel_r =
\* channel_l + 1; and a toggle that persisted changes the enabled flag alone.
\* Stated for the files that hold all their lines, which the claim implies.
C14_PersistedRoutingValid ==
    [][/\ HoldsAllLines(audioOutFile') =>
             RoutingValid(read_audio_output_config(audioOutFile'))
       /\ (resp'.endpoint = "/audio/output/toggle" /\ Len(ops') = 2
              /\ installationConf' = installationConf
              /\ HoldsAllLines(audioOutFile)) =>
             OnlyEnabledToggled(read_audio_output_config(audioOutFile),
                                read_audio_output_config(audioOutFile'))]_vars

\* the enabled flag the persisted file gives to a reader
PersistedEnabled == read_audio_output_config(audioOutFile).enabled

\* the toggle requests whose write succeeded
ToggleWrites == {q \in ToggleRequests : toggles[q].written = "ok"}

\* C11 as stated: toggle requests held together are handled concurrently, so
\* that both can read the same enabled flag before either writes: while the
\* handler of one request is between its read and its write, the handler of a
\* waiting request can read the file.
C11_TogglesInterleave ==
    \A r, q \in ToggleRequests :
       (r # q /\ toggles[r].pc = "read" /\ toggles[q].pc = "pending") =>
          ENABLED toggle_reads(q)

\* C11 amended: toggle requests held together are handled one after the other,
\* each from its read to its return before the next one reads; no two read the
\* same flag before either writes, and while no write has failed the persisted
\* flag is the initial one (false, file absent) inverted once per toggle
\* written: after two toggles it is the initial flag again, no update is lost.
C11_TogglesSerialised ==
    /\ Cardinality({q \in ToggleRequests : mid_handler(q)}) <= 1
    /\ (\A q \in ToggleRequests : toggles[q].written # "failed") =>
          (PersistedEnabled <=> Cardinality(ToggleWrites) % 2 = 1)

\* C11 witness: two toggles have returned, the second one arrived while the
\* handler of the first was running, both wrote, and the persisted flag is the
\* initial one
C11_Witness ==
    \E r, q \in ToggleRequests :
       /\ r # q
       /\ toggles[r].pc = "done" /\ toggles[r].written = "ok"
       /\ toggles[q].pc = "done" /\ toggles[q].written = "ok"
       /\ toggles[q].overlapped
       /\ ToggleWrites = {r, q}
       /\ ~PersistedEnabled
====
